---- MODULE Spec2Model ----
(***************************************************************************)
(* Model of src/main.py: six cached source adapters (RxNav, OpenFDA,       *)
(* DrugCentral, Wikipedia, DailyMed, ChEMBL) and the "if drug_query:"      *)
(* block that calls them one after the other.                              *)
(*                                                                         *)
(* Python values are encoded as records tagged by the field j:             *)
(*   None -> JNull, str -> JStr(s), int -> JNum(n), list -> JList(seq),    *)
(*   dict -> JDict(f) with f a function from the keys to values.           *)
(* A raised exception is the value Exc(msg), msg being str(e); every       *)
(* helper passes an exception in an operand through, which is how the      *)
(* first exception of a try block reaches its except clause.               *)
(***************************************************************************)
EXTENDS Integers, Sequences, FiniteSets, TLC

VARIABLES
  \* --- adapter level (one adapter call at a time, SpecAdapters) ---
  phase,      \* "ready" | "returned"
  adapter,    \* the adapter function called last
  query,      \* its drug_name argument
  replies,    \* what the upstream answered to the requests of that call
  out,        \* the value the adapter function returned
  reqs,       \* the requests the call issued, in order
  nSearchHit, \* DrugCentral searches that returned a non-empty list, so far
  nDetail,    \* DrugCentral detail requests issued, so far
  \* --- application level (script runs of the sessions, Spec) ---
  clock,      \* the time the cache reads, in the unit of ttl
  cache,      \* st.cache_data: key -> [value, at, by]
  run,        \* per session: the script run in progress
  faults,     \* calls so far that met an upstream that misbehaves
  runs        \* script runs started so far

avars == <<phase, adapter, query, replies, out, reqs, nSearchHit, nDetail>>
vars == <<clock, cache, run, faults, runs>>

-----------------------------------------------------------------------------
(* Bounds of the model *)
MaxMols == 5         \* molecules in a ChEMBL response
MaxSpls == 3         \* entries in a DailyMed response
MaxTargets == 4      \* targets in a DrugCentral detail response
MaxIndications == 3  \* indications in a DrugCentral detail response
MaxGroups == 2       \* concept groups in an RxNav response
MaxProps == 2        \* conceptProperties in one RxNav concept group
MaxTexts == 2        \* texts in one OpenFDA label field
MaxHits == 2         \* Wikipedia search hits / DrugCentral search matches
MaxCalls == 3        \* DrugCentral calls counted by nSearchHit / nDetail

-----------------------------------------------------------------------------
(* Python values *)
JNull == [j |-> "null"]
JStr(s) == [j |-> "str", s |-> s]
JNum(n) == [j |-> "num", n |-> n]
JList(items) == [j |-> "list", items |-> items]
JDict(f) == [j |-> "dict", f |-> f]
NotJson == [j |-> "notjson"]   \* a response body that is not JSON
Exc(msg) == [j |-> "exc", msg |-> msg]
IsExc(v) == v.j = "exc"
EmptyDict == JDict(<<>>)

Min(a, b) == IF a < b THEN a ELSE b

\* type(v).__name__, as the messages of TypeError and AttributeError show it
PyTypeName(v) ==
  CASE v.j = "null" -> "NoneType"
    [] v.j = "num" -> "int"
    [] OTHER -> v.j

\* d.get(k, default)
PyGet(d, k, default) ==
  IF IsExc(d) THEN d
  ELSE IF d.j # "dict" THEN Exc("'" \o PyTypeName(d) \o "' object has no attribute 'get'")
  ELSE IF k \in DOMAIN d.f THEN d.f[k] ELSE default

\* d[k] for a str key k
PyItem(d, k) ==
  IF IsExc(d) THEN d
  ELSE IF d.j # "dict" THEN Exc("'" \o PyTypeName(d) \o "' object cannot be indexed by str")
  ELSE IF k \in DOMAIN d.f THEN d.f[k] ELSE Exc("'" \o k \o "'")

\* l[0]
PyFirst(l) ==
  IF IsExc(l) THEN l
  ELSE IF l.j = "list"
    THEN IF l.items = <<>> THEN Exc("list index out of range") ELSE l.items[1]
  ELSE IF l.j = "str"
    THEN IF l.s = "" THEN Exc("string index out of range") ELSE JStr("<char>")
  ELSE IF l.j = "dict" THEN Exc("0")
  ELSE Exc("'" \o PyTypeName(l) \o "' object is not subscriptable")

\* l[:n] with the bound dropped: the whole of l
PySliceAll(l, n) == l

\* l[:n]
PySlice(l, n) ==
  IF IsExc(l) THEN l
  ELSE IF l.j = "list" THEN JList(SubSeq(l.items, 1, Min(n, Len(l.items))))
  ELSE IF l.j = "str" THEN (IF Len(l.s) <= n THEN l ELSE JStr("<prefix>"))
  ELSE IF l.j = "dict" THEN Exc("unhashable type: 'slice'")
  ELSE Exc("'" \o PyTypeName(l) \o "' object is not subscriptable")

\* bool(v)
PyTruthy(v) ==
  CASE v.j = "null" -> FALSE
    [] v.j = "str" -> v.s # ""
    [] v.j = "num" -> v.n # 0
    [] v.j = "list" -> v.items # <<>>
    [] v.j = "dict" -> DOMAIN v.f # {}
    [] OTHER -> TRUE

\* str(v), as an f-string formats a value
PyStr(v) ==
  CASE v.j = "str" -> v.s
    [] v.j = "null" -> "None"
    [] v.j = "num" -> ToString(v.n)
    [] OTHER -> "<" \o v.j \o ">"

\* [F(x) for x in l]: the first exception raised ends the comprehension
RECURSIVE MapItems(_, _)
MapItems(F(_), items) ==
  IF items = <<>> THEN JList(<<>>)
  ELSE LET h == F(Head(items)) IN
       IF IsExc(h) THEN h
       ELSE LET t == MapItems(F, Tail(items)) IN
            IF IsExc(t) THEN t ELSE JList(<<h>> \o t.items)

\* The keys of a dict, as a sequence
RECURSIVE KeySeq(_)
KeySeq(ks) ==
  IF ks = {} THEN <<>>
  ELSE LET k == CHOOSE x \in ks : TRUE IN <<JStr(k)>> \o KeySeq(ks \ {k})

\* What "for x in l" walks through: the items of a list, the keys of a dict,
\* the characters of a str (each one a str; which character is not modelled)
PyIter(l) ==
  IF IsExc(l) THEN l
  ELSE IF l.j = "list" THEN l
  ELSE IF l.j = "dict" THEN JList(KeySeq(DOMAIN l.f))
  ELSE IF l.j = "str" THEN JList([i \in 1..Len(l.s) |-> JStr("<char>")])
  ELSE Exc("'" \o PyTypeName(l) \o "' object is not iterable")

PyComprehension(F(_), l) ==
  LET it == PyIter(l) IN IF IsExc(it) THEN it ELSE MapItems(F, it.items)

\* [y for x in l for y in F(x)]
RECURSIVE FlatItems(_, _)
FlatItems(F(_), items) ==
  IF items = <<>> THEN JList(<<>>)
  ELSE LET h == F(Head(items)) IN
       IF IsExc(h) THEN h
       ELSE LET t == FlatItems(F, Tail(items)) IN
            IF IsExc(t) THEN t ELSE JList(h.items \o t.items)

PyFlatComprehension(F(_), l) ==
  LET it == PyIter(l) IN IF IsExc(it) THEN it ELSE FlatItems(F, it.items)

-----------------------------------------------------------------------------
(* One HTTP exchange.  exc # "" : requests.get raised (connection error,   *)
(* timeout); otherwise the response has a status and a body.  The code     *)
(* reads response.json() and never looks at the status.                    *)
Raised(e) == [exc |-> e, status |-> 0, body |-> NotJson]
Answer(st, b) == [exc |-> "", status |-> st, body |-> b]

\* response = requests.get(url, timeout=10); data = response.json()
GetJson(reply) ==
  IF reply.exc # "" THEN Exc(reply.exc)
  ELSE IF reply.body.j = "notjson" THEN Exc("Expecting value: line 1 column 1 (char 0)")
  ELSE reply.body

TransportErrors == {"Connection refused", "Read timed out. (read timeout=10)"}
Statuses == {200, 500}
Queries == {"ibuprofen", "metformin"}

-----------------------------------------------------------------------------
(* ChEMBL *)
ChemblEntry(mol) ==
  LET name == PyGet(mol, "pref_name", JStr("Unnamed compound"))
      id == PyGet(mol, "molecule_chembl_id", JNull)
      ty == PyGet(mol, "molecule_type", JNull)
  IN IF IsExc(name) THEN name
     ELSE JDict([name |-> name, chembl_id |-> id, type |-> ty])

fetch_chembl_info(drug_name, reply) ==
  LET data == GetJson(reply)
      molecules == PySlice(PyGet(data, "molecules", JList(<<>>)), 3)
      entries == PyComprehension(ChemblEntry, molecules)
  IN IF IsExc(entries)
       THEN JList(<<JDict([error |-> JStr("ChEMBL Error: " \o entries.msg)])>>)
     ELSE IF entries.items # <<>> THEN entries
     ELSE JList(<<JDict([error |-> JStr("No ChEMBL records found")])>>)

-----------------------------------------------------------------------------
(* DailyMed *)
DailymedEntry(item) ==
  LET title == PyGet(item, "title", JStr("No title"))
      setid == PyGet(item, "setid", JNull)
  IN IF IsExc(title) THEN title
     ELSE JDict([title |-> title,
                 url |-> JStr("https://dailymed.nlm.nih.gov/dailymed/drugInfo.cfm?setid="
                              \o PyStr(setid))])

fetch_dailymed_info(drug_name, reply) ==
  LET data == GetJson(reply)
      items == PySlice(PyGet(data, "data", JList(<<>>)), 2)
      entries == PyComprehension(DailymedEntry, items)
  IN IF IsExc(entries) THEN JList(<<JStr("DailyMed Error: " \o entries.msg)>>)
     ELSE IF entries.items # <<>> THEN entries
     ELSE JList(<<JStr("No DailyMed entries found")>>)

-----------------------------------------------------------------------------
(* RxNav *)
RxFormat(c) ==
  LET name == PyItem(c, "name")
      rxcui == PyItem(c, "rxcui")
  IN IF IsExc(name) THEN name
     ELSE IF IsExc(rxcui) THEN rxcui
     ELSE JStr(PyStr(name) \o " (RxCUI: " \o PyStr(rxcui) \o ")")

\* ... for group in concepts if group.get("conceptProperties")
\*     for c in group["conceptProperties"]
RxGroup(group) ==
  LET props == PyGet(group, "conceptProperties", JNull) IN
  IF IsExc(props) THEN props
  ELSE IF ~PyTruthy(props) THEN JList(<<>>)
  ELSE PyComprehension(RxFormat, PyItem(group, "conceptProperties"))

fetch_rxnav_info(drug_name, reply) ==
  LET data == GetJson(reply)
      concepts == PyGet(PyGet(data, "drugGroup", EmptyDict), "conceptGroup", JList(<<>>))
      names == PyFlatComprehension(RxGroup, concepts)
  IN IF IsExc(names) THEN JList(<<JStr("RxNav Error: " \o names.msg)>>)
     ELSE names

-----------------------------------------------------------------------------
(* OpenFDA *)
NotAvailable == JList(<<JStr("Not available")>>)

fetch_openfda_info(drug_name, reply) ==
  LET data == GetJson(reply)
      found == PyGet(data, "results", JNull)
      result == PyFirst(PyItem(data, "results"))
      uses == PyFirst(PyGet(result, "indications_and_usage", NotAvailable))
      warnings == PyFirst(PyGet(result, "warnings", NotAvailable))
      side_effects == PyFirst(PyGet(result, "adverse_reactions", NotAvailable))
      Error(e) == JDict([error |-> JStr("FDA API Error: " \o e.msg)])
  IN IF IsExc(found) THEN Error(found)
     ELSE IF ~PyTruthy(found) THEN JDict([error |-> JStr("No FDA label data found")])
     ELSE IF IsExc(uses) THEN Error(uses)
     ELSE IF IsExc(warnings) THEN Error(warnings)
     ELSE IF IsExc(side_effects) THEN Error(side_effects)
     ELSE JDict([uses |-> uses, warnings |-> warnings, side_effects |-> side_effects])

-----------------------------------------------------------------------------
(* DrugCentral: a search request, then a detail request.  The result is    *)
(* the returned value and the requests that were issued, in order.         *)
TargetName(t) == PyItem(t, "target_name")
IndicationOf(i) == PyItem(i, "indication")

\* drug_id = search_data[0]["struct_id"]
DrugId(search_data) == PyItem(PyFirst(search_data), "struct_id")

\* The requests of a call that goes on to the detail request whatever the
\* search gave
drugcentral_requests_no_return(searchReply) == <<"search", "detail">>

\* The requests of one call: the detail request follows a search that
\* returned a truthy value whose first entry has a struct_id
drugcentral_requests(searchReply) ==
  LET search_data == GetJson(searchReply) IN
  IF IsExc(search_data) THEN <<"search">>
  ELSE IF ~PyTruthy(search_data) THEN <<"search">>
  ELSE IF IsExc(DrugId(search_data)) THEN <<"search">>
  ELSE <<"search", "detail">>

fetch_drugcentral_info(drug_name, searchReply, detailReply) ==
  LET search_data == GetJson(searchReply)
      drug_id == DrugId(search_data)
      detail_data == GetJson(detailReply)
      moa == PyGet(detail_data, "mechanism_of_action", JStr("Not available"))
      targets == PyComprehension(TargetName,
                   PySlice(PyGet(detail_data, "targets", JList(<<>>)), 3))
      indications == PyComprehension(IndicationOf,
                       PySlice(PyGet(detail_data, "indications", JList(<<>>)), 2))
      Error(e) == JDict([error |-> JStr("DrugCentral Error: " \o e.msg)])
  IN IF IsExc(search_data) THEN Error(search_data)
     ELSE IF ~PyTruthy(search_data)
       THEN JDict([error |-> JStr("Drug not found in DrugCentral")])
     ELSE IF IsExc(drug_id) THEN Error(drug_id)
     ELSE IF IsExc(moa) THEN Error(moa)
     ELSE IF IsExc(targets) THEN Error(targets)
     ELSE IF IsExc(indications) THEN Error(indications)
     ELSE JDict([moa |-> moa, targets |-> targets, indications |-> indications])

-----------------------------------------------------------------------------
(* Wikipedia: wikipedia.search returns a list of titles or raises;         *)
(* wikipedia.summary(title, sentences=3) returns a text or raises.         *)
(* pages maps a title to what wikipedia.summary gives for it.              *)
fetch_wikipedia_summary(drug_name, search_results, pages) ==
  IF IsExc(search_results) THEN JStr("Wikipedia Error: " \o search_results.msg)
  ELSE IF ~PyTruthy(search_results) THEN JStr("No Wikipedia page found")
  ELSE LET summary == pages[PyFirst(search_results).s] IN
       IF IsExc(summary) THEN JStr("Wikipedia Error: " \o summary.msg)
       ELSE summary

-----------------------------------------------------------------------------
(* The upstream answers the model draws from.  Lists hold distinct entries *)
(* (entry i is Good(i)), at most one of them replaced by a defective one.  *)
ListsOf(Good(_), Bads, max) ==
  UNION { { [i \in 1..n |-> Good(i)] }
          \cup { [i \in 1..n |-> IF i = p THEN b ELSE Good(i)] : p \in 1..n, b \in Bads }
        : n \in 0..max }

\* exc raised by requests.get, or a response of any status with any body
RepliesWith(bodies) ==
  { Raised(e) : e \in TransportErrors }
  \cup { Answer(st, b) : st \in Statuses, b \in bodies \cup {NotJson} }

\* Bodies whose top level is not what the adapter reads
ErrorBody == JDict([error |-> JStr("Internal Server Error")])
OddBodies == {JList(<<>>), JNull, EmptyDict, ErrorBody}

Molecule(i) ==
  JDict([pref_name |-> JStr("MOLECULE " \o ToString(i)),
         molecule_chembl_id |-> JStr("CHEMBL" \o ToString(i)),
         molecule_type |-> JStr("Small molecule")])
BadMolecules ==
  { JDict([molecule_chembl_id |-> JStr("CHEMBL0"), molecule_type |-> JStr("Unknown")]),
    JDict([pref_name |-> JNull, molecule_chembl_id |-> JStr("CHEMBL0")]),
    EmptyDict,
    JStr("CHEMBL0") }
ChemblBodies ==
  OddBodies \cup {JDict([molecules |-> JNull])}
  \cup { JDict([molecules |-> JList(l)]) : l \in ListsOf(Molecule, BadMolecules, MaxMols) }

Spl(i) ==
  JDict([title |-> JStr("LABEL " \o ToString(i)), setid |-> JStr("set-" \o ToString(i))])
BadSpls ==
  { JDict([setid |-> JStr("set-0")]), JDict([title |-> JStr("LABEL 0")]),
    EmptyDict, JNull }
DailymedBodies ==
  OddBodies \cup {JDict([data |-> JNull])}
  \cup { JDict([data |-> JList(l)]) : l \in ListsOf(Spl, BadSpls, MaxSpls) }

ConceptProperty(i) ==
  JDict([name |-> JStr("drug " \o ToString(i)), rxcui |-> JStr(ToString(5640 + i))])
BadConceptProperties == { JDict([name |-> JStr("drug 0")]), JDict([rxcui |-> JNull]) }
ConceptGroups ==
  { JDict([tty |-> JStr("BN")]), JDict([tty |-> JStr("BN"), conceptProperties |-> JNull]) }
  \cup { JDict([tty |-> JStr("SBD"), conceptProperties |-> JList(l)])
         : l \in ListsOf(ConceptProperty, BadConceptProperties, MaxProps) }
ConceptGroupLists ==
  UNION { [1..n -> ConceptGroups] : n \in 0..MaxGroups }
RxnavBodies ==
  OddBodies
  \cup { JDict([drugGroup |-> JNull]), JDict([drugGroup |-> JDict([name |-> JNull])]),
         JDict([drugGroup |-> JDict([conceptGroup |-> JNull])]),
         JDict([drugGroup |-> JDict([conceptGroup |-> EmptyDict])]) }
  \cup { JDict([drugGroup |-> JDict([conceptGroup |-> JList(l)])]) : l \in ConceptGroupLists }

LabelTexts ==
  { JList([i \in 1..n |-> JStr("text " \o ToString(i))]) : n \in 0..MaxTexts }
LabelFields == {"indications_and_usage", "warnings", "adverse_reactions"}
LabelRecords ==
  UNION { { JDict(f) : f \in [present -> LabelTexts] } : present \in SUBSET LabelFields }
OpenfdaBodies ==
  OddBodies
  \cup { JDict([results |-> JList(<<>>)]), JDict([results |-> JList(<<JNull>>)]),
         JDict([results |-> JList(<<JDict([warnings |-> JNull])>>)]) }
  \cup { JDict([results |-> JList(<<r>>)]) : r \in LabelRecords }

Match(i) == JDict([struct_id |-> JNum(1000 + i), name |-> JStr("match " \o ToString(i))])
BadMatches == { JDict([name |-> JStr("match 0")]), JNull }
SearchBodies ==
  OddBodies \cup {JStr("")}
  \cup { JList(l) : l \in ListsOf(Match, BadMatches, MaxHits) }
Target(i) == JDict([target_name |-> JStr("target " \o ToString(i))])
BadTargets == { JDict([target_class |-> JStr("Enzyme")]), JDict([target_name |-> JNull]) }
Indication(i) == JDict([indication |-> JStr("indication " \o ToString(i))])
BadIndications == { JDict([concept_id |-> JNum(7)]) }
MoaChoices == { JStr("COX inhibitor"), JNull }
DetailRecords ==
  { JDict(f) :
      f \in UNION { [present -> {JNull}] : present \in SUBSET {"mechanism_of_action", "targets", "indications"} } }
DetailBodies ==
  OddBodies \cup DetailRecords
  \cup { JDict([mechanism_of_action |-> JStr("COX inhibitor"), targets |-> JList(t),
                indications |-> JList(i)])
         : t \in ListsOf(Target, BadTargets, MaxTargets),
           i \in ListsOf(Indication, BadIndications, MaxIndications) }
  \cup { JDict([targets |-> JList(t)]) : t \in ListsOf(Target, BadTargets, MaxTargets) }
  \cup { JDict([mechanism_of_action |-> m, indications |-> JList(i)])
         : m \in MoaChoices, i \in ListsOf(Indication, BadIndications, MaxIndications) }

Title(i) == JStr("Page " \o ToString(i))
WikiSearchResults ==
  { Exc(e) : e \in TransportErrors }
  \cup { JList([i \in 1..n |-> Title(i)]) : n \in 0..MaxHits }
WikiSummaries ==
  { Exc("\"Page\" may refer to: ..."), Exc("Page id does not match any pages."),
    JStr("First. Second. Third.") }
WikiPages == [ {Title(i).s : i \in 1..MaxHits} -> WikiSummaries ]

-----------------------------------------------------------------------------
(* Adapter level: one call of one adapter function at a time, on any query *)
(* and any upstream answer.                                                *)
Request(to, name) == [to |-> to, name |-> name]

\* A DrugCentral search that came back as a non-empty list
SearchHit(searchReply) ==
  LET d == GetJson(searchReply) IN d.j = "list" /\ d.items # <<>>

\* No adapter call in progress
NoCall ==
  /\ phase = "ready"
  /\ adapter = "none"
  /\ query = ""
  /\ replies = <<>>
  /\ out = JNull
  /\ reqs = <<>>
  /\ nSearchHit = 0
  /\ nDetail = 0

\* No session has run the script
NoRun ==
  /\ clock = 0
  /\ cache = <<>>
  /\ run = <<>>
  /\ faults = 0
  /\ runs = 0

AInit == NoCall /\ NoRun

Returned(a, q, rs, value, issued) ==
  /\ phase' = "returned"
  /\ adapter' = a
  /\ query' = q
  /\ replies' = rs
  /\ out' = value
  /\ reqs' = issued

CallRxnav ==
  /\ phase = "ready"
  /\ \E q \in Queries, r \in RepliesWith(RxnavBodies) :
       Returned("rxnav", q, <<r>>, fetch_rxnav_info(q, r), <<Request("rxnav", q)>>)
  /\ UNCHANGED <<nSearchHit, nDetail, vars>>

CallOpenfda ==
  /\ phase = "ready"
  /\ \E q \in Queries, r \in RepliesWith(OpenfdaBodies) :
       Returned("openfda", q, <<r>>, fetch_openfda_info(q, r), <<Request("openfda", q)>>)
  /\ UNCHANGED <<nSearchHit, nDetail, vars>>

CallDailymed ==
  /\ phase = "ready"
  /\ \E q \in Queries, r \in RepliesWith(DailymedBodies) :
       Returned("dailymed", q, <<r>>, fetch_dailymed_info(q, r), <<Request("dailymed", q)>>)
  /\ UNCHANGED <<nSearchHit, nDetail, vars>>

CallChembl ==
  /\ phase = "ready"
  /\ \E q \in Queries, r \in RepliesWith(ChemblBodies) :
       Returned("chembl", q, <<r>>, fetch_chembl_info(q, r), <<Request("chembl", q)>>)
  /\ UNCHANGED <<nSearchHit, nDetail, vars>>

CallWikipedia ==
  /\ phase = "ready"
  /\ \E q \in Queries, sr \in WikiSearchResults, pages \in WikiPages :
       Returned("wikipedia", q, <<sr, pages>>, fetch_wikipedia_summary(q, sr, pages),
                IF IsExc(sr) \/ ~PyTruthy(sr)
                  THEN <<Request("wikipedia.search", q)>>
                  ELSE <<Request("wikipedia.search", q),
                         Request("wikipedia.summary", PyFirst(sr).s)>>)
  /\ UNCHANGED <<nSearchHit, nDetail, vars>>

\* The detail reply is drawn only when the detail request is issued
CallDrugcentral ==
  /\ phase = "ready"
  /\ nSearchHit < MaxCalls
  /\ \E q \in Queries, sr \in RepliesWith(SearchBodies) :
       LET issued == drugcentral_requests(sr) IN
       \E dr \in IF Len(issued) = 2 THEN RepliesWith(DetailBodies) ELSE {Raised("")} :
         /\ Returned("drugcentral", q,
                     IF Len(issued) = 2 THEN <<sr, dr>> ELSE <<sr>>,
                     fetch_drugcentral_info(q, sr, dr),
                     [i \in 1..Len(issued) |-> Request(issued[i], q)])
         /\ nSearchHit' = nSearchHit + (IF SearchHit(sr) THEN 1 ELSE 0)
         /\ nDetail' = nDetail + (IF Len(issued) = 2 THEN 1 ELSE 0)
  /\ UNCHANGED vars

\* The caller takes the value; the next call starts from scratch
Done ==
  /\ phase = "returned"
  /\ phase' = "ready"
  /\ adapter' = "none"
  /\ query' = ""
  /\ replies' = <<>>
  /\ out' = JNull
  /\ reqs' = <<>>
  /\ UNCHANGED <<nSearchHit, nDetail, vars>>

ANext ==
  \/ CallRxnav
  \/ CallOpenfda
  \/ CallDrugcentral
  \/ CallWikipedia
  \/ CallDailymed
  \/ CallChembl
  \/ Done

SpecAdapters == AInit /\ [][ANext]_<<avars, vars>>

-----------------------------------------------------------------------------
(* How a value of each adapter reads: the value of its except clause (its  *)
(* Failure), and the marker that sets that value apart.                    *)
TypeNames == {"NoneType", "int", "str", "list", "dict"}
KeysRead == {"name", "rxcui", "results", "conceptProperties", "struct_id", "target_name",
             "indication"}
WikiErrors == {"\"Page\" may refer to: ...", "Page id does not match any pages."}

\* Every str(e) an except clause of the model can see
ExcMessages ==
  TransportErrors \cup WikiErrors
  \cup {"Expecting value: line 1 column 1 (char 0)", "list index out of range",
        "string index out of range", "0", "unhashable type: 'slice'"}
  \cup { "'" \o k \o "'" : k \in KeysRead }
  \cup { "'" \o t \o "' object has no attribute 'get'" : t \in TypeNames }
  \cup { "'" \o t \o "' object cannot be indexed by str" : t \in TypeNames }
  \cup { "'" \o t \o "' object is not subscriptable" : t \in TypeNames }
  \cup { "'" \o t \o "' object is not iterable" : t \in TypeNames }

HasErrorKey(v) == v.j = "dict" /\ "error" \in DOMAIN v.f

\* The values the except clause of each adapter can build
RxnavFailures == { JList(<<JStr("RxNav Error: " \o m)>>) : m \in ExcMessages }
DailymedFailures == { JList(<<JStr("DailyMed Error: " \o m)>>) : m \in ExcMessages }
ChemblFailures ==
  { JList(<<JDict([error |-> JStr("ChEMBL Error: " \o m)])>>) : m \in ExcMessages }
OpenfdaFailures == { JDict([error |-> JStr("FDA API Error: " \o m)]) : m \in ExcMessages }
DrugcentralFailures ==
  { JDict([error |-> JStr("DrugCentral Error: " \o m)]) : m \in ExcMessages }
WikipediaFailures == { JStr("Wikipedia Error: " \o m) : m \in ExcMessages }

\* The value is the one the except clause of adapter a builds
IsFailure(a, v) ==
  CASE a = "rxnav" -> v \in RxnavFailures
    [] a = "dailymed" -> v \in DailymedFailures
    [] a = "chembl" -> v \in ChemblFailures
    [] a = "openfda" -> v \in OpenfdaFailures
    [] a = "drugcentral" -> v \in DrugcentralFailures
    [] a = "wikipedia" -> v \in WikipediaFailures

\* The value is a Failure of adapter a: built by its except clause, or by
\* the branch that reports that nothing was found as an error
IsError(a, v) ==
  \/ IsFailure(a, v)
  \/ a \in {"openfda", "drugcentral"} /\ HasErrorKey(v)
  \/ a = "wikipedia" /\ v = JStr("No Wikipedia page found")

\* The value has the shape by which a Failure of adapter a is told apart:
\* the "error" key of a dict (ChEMBL: of the one dict in the list), the
\* "<source> Error: " text of a str
CarriesErrorMarker(a, v) ==
  CASE a = "chembl" -> v.j = "list" /\ Len(v.items) = 1 /\ HasErrorKey(v.items[1])
    [] a \in {"openfda", "drugcentral"} -> HasErrorKey(v)
    [] OTHER -> IsFailure(a, v)

-----------------------------------------------------------------------------
(* Application level: each session reruns the script when its text input   *)
(* changes.  A script run with a non-empty drug_query calls the six cached *)
(* functions in the order of the page and renders each value before the    *)
(* next call.  One call of a cached function is one step.                  *)
TTL == 3600
TickStep == 1800     \* how far one clock advance goes
MaxClock == 5400     \* the clock stops here
MaxRuns == 2         \* script runs in a behaviour
MaxFaults == 2       \* calls in a behaviour whose upstream misbehaves

Sessions == {"A", "B"}
Order == <<"wikipedia", "rxnav", "openfda", "dailymed", "drugcentral", "chembl">>
Inputs == Queries \cup {""}

\* The upstream answers of the application level: per source a good answer
\* for the drug, a timeout, and for DrugCentral a target without a name
GoodBody(a, q) ==
  CASE a = "rxnav" ->
         JDict([drugGroup |-> JDict([conceptGroup |-> JList(<<
           JDict([conceptProperties |-> JList(<<JDict([name |-> JStr(q), rxcui |-> JStr("5640")])>>)])>>)])])
    [] a = "openfda" ->
         JDict([results |-> JList(<<JDict([warnings |-> JList(<<JStr("warning for " \o q)>>)])>>)])
    [] a = "dailymed" ->
         JDict([data |-> JList(<<JDict([title |-> JStr(q), setid |-> JStr("set-1")])>>)])
    [] a = "chembl" ->
         JDict([molecules |-> JList(<<JDict([pref_name |-> JStr(q), molecule_chembl_id |-> JStr("CHEMBL1")])>>)])
    [] a = "search" -> JList(<<JDict([struct_id |-> JNum(1001), name |-> JStr(q)])>>)
    [] a = "detail" ->
         JDict([mechanism_of_action |-> JStr("COX inhibitor"),
                targets |-> JList(<<JDict([target_name |-> JStr("target of " \o q)])>>)])
Timeout == Raised("Read timed out. (read timeout=10)")
NamelessTarget == JDict([targets |-> JList(<<JDict([target_name |-> JNull])>>)])

\* The values a call of function a on drug_name q can compute, each with
\* the requests it issues, and whether the upstream misbehaved
Outcomes(a, q) ==
  CASE a = "rxnav" ->
         { [value |-> fetch_rxnav_info(q, r), requests |-> <<a>>, fault |-> r = Timeout]
           : r \in {Timeout, Answer(200, GoodBody(a, q))} }
    [] a = "openfda" ->
         { [value |-> fetch_openfda_info(q, r), requests |-> <<a>>, fault |-> r = Timeout]
           : r \in {Timeout, Answer(200, GoodBody(a, q))} }
    [] a = "dailymed" ->
         { [value |-> fetch_dailymed_info(q, r), requests |-> <<a>>, fault |-> r = Timeout]
           : r \in {Timeout, Answer(200, GoodBody(a, q))} }
    [] a = "chembl" ->
         { [value |-> fetch_chembl_info(q, r), requests |-> <<a>>, fault |-> r = Timeout]
           : r \in {Timeout, Answer(200, GoodBody(a, q))} }
    [] a = "wikipedia" ->
         { [value |-> fetch_wikipedia_summary(q, sr, [t \in {"Page 1"} |-> JStr("About " \o q)]),
            requests |-> IF IsExc(sr) THEN <<"wikipedia.search">>
                         ELSE <<"wikipedia.search", "wikipedia.summary">>,
            fault |-> IsExc(sr)]
           : sr \in {Exc("Read timed out. (read timeout=10)"), JList(<<JStr("Page 1")>>)} }
    [] a = "drugcentral" ->
         { [value |-> fetch_drugcentral_info(q, rr[1], rr[2]),
            requests |-> drugcentral_requests(rr[1]),
            fault |-> rr[2] # Answer(200, GoodBody("detail", q))]
           : rr \in { <<Timeout, Timeout>>,
                      <<Answer(200, GoodBody("search", q)), Answer(200, GoodBody("detail", q))>>,
                      <<Answer(200, GoodBody("search", q)), Answer(200, NamelessTarget)>> } }

\* A key that leaves the argument out
CacheKeyOfFunction(a, drug_name) == <<a, "">>

\* st.cache_data keeps one cache per decorated function, keyed by the
\* arguments of the call
CacheKey(a, drug_name) == <<a, drug_name>>

\* An entry that never runs out
LiveForever(k) == k \in DOMAIN cache

\* ttl=3600: an entry counts for ttl after it was stored
Live(k) == k \in DOMAIN cache /\ clock - cache[k].at < TTL

\* A cache that keeps no Failure
StoredUnlessError(k, value, by) ==
  IF IsError(by[1], value) THEN cache
  ELSE (k :> [value |-> value, at |-> clock, by |-> by]) @@ cache

\* What is written to the cache when a call has computed a value; by is
\* the function and the drug_name of the call that computed it
Stored(k, value, by) == (k :> [value |-> value, at |-> clock, by |-> by]) @@ cache

\* ", ".join(dc_data["targets"]) raises TypeError unless every target is a str
RenderRaises(a, value) ==
  /\ a = "drugcentral"
  /\ "error" \notin DOMAIN value.f
  /\ PyTruthy(value.f["targets"])
  /\ \E i \in 1..Len(value.f["targets"].items) : value.f["targets"].items[i].j # "str"

Idle == [pc |-> "idle", q |-> "", i |-> 0, got |-> <<>>,
         last |-> [value |-> JNull, by |-> <<"", "">>, requests |-> <<>>]]

Init ==
  /\ NoCall
  /\ clock = 0
  /\ cache = <<>>
  /\ run = [s \in Sessions |-> Idle]
  /\ faults = 0
  /\ runs = 0

\* The text input of session s changes: the script reruns from the top.
\* With an empty drug_query the "if drug_query:" block is skipped.
Submit(s) ==
  /\ run[s].pc \notin {"running", "computing"}
  /\ runs < MaxRuns
  /\ runs' = runs + 1
  /\ \E q \in Inputs :
       run' = [run EXCEPT ![s] = [Idle EXCEPT !.pc = IF q = "" THEN "finished" ELSE "running",
                                              !.q = q]]
  /\ UNCHANGED <<clock, cache, faults, avars>>

\* The section of the page that follows: the value is rendered, and the run
\* goes on to the next section, ends after the last, or dies in the render
Rendered(s, a, value, by, requests) ==
  run' = [run EXCEPT ![s] =
    [pc |-> IF RenderRaises(a, value) THEN "aborted"
            ELSE IF run[s].i + 1 = Len(Order) THEN "finished" ELSE "running",
     q |-> run[s].q,
     i |-> run[s].i + 1,
     got |-> Append(run[s].got, a),
     last |-> [value |-> value, by |-> by, requests |-> requests]]]

\* The cached function is called and a live entry is returned
CacheHit(s) ==
  /\ run[s].pc = "running"
  /\ LET a == Order[run[s].i + 1]
         k == CacheKey(a, run[s].q)
     IN /\ Live(k)
        /\ Rendered(s, a, cache[k].value, cache[k].by, <<>>)
  /\ UNCHANGED <<clock, cache, faults, runs, avars>>

\* The cached function is called with no live entry: the function body runs
\* and what it returns is stored
Compute(s, fault) ==
  /\ run[s].pc = "running"
  /\ LET a == Order[run[s].i + 1]
         k == CacheKey(a, run[s].q)
     IN /\ ~Live(k)
        /\ \E c \in Outcomes(a, run[s].q) :
             /\ c.fault = fault
             /\ cache' = Stored(k, c.value, <<a, run[s].q>>)
             /\ Rendered(s, a, c.value, <<a, run[s].q>>, c.requests)
  /\ UNCHANGED <<clock, runs, avars>>

\* ... with an upstream that answers well
CacheMiss(s) ==
  /\ Compute(s, FALSE)
  /\ UNCHANGED faults

\* ... with an upstream that misbehaves
CacheMissFault(s) ==
  /\ faults < MaxFaults
  /\ faults' = faults + 1
  /\ Compute(s, TRUE)

Tick ==
  /\ clock + TickStep <= MaxClock
  /\ clock' = clock + TickStep
  /\ UNCHANGED <<cache, run, faults, runs, avars>>

\* One session, an upstream that may misbehave
Next ==
  \/ Submit("A")
  \/ CacheHit("A")
  \/ CacheMiss("A")
  \/ CacheMissFault("A")
  \/ Tick

Spec == Init /\ [][Next]_<<vars, avars>>

\* Several sessions at once, each running the script in a thread of its
\* own.  A function body takes as long as its requests do, so a call that
\* found no live entry is two steps, and calls of other sessions come in
\* between:

\* the call finds no live entry and the function body starts
MissBegin(s) ==
  /\ run[s].pc = "running"
  /\ ~Live(CacheKey(Order[run[s].i + 1], run[s].q))
  /\ run' = [run EXCEPT ![s].pc = "computing"]
  /\ UNCHANGED <<clock, cache, faults, runs, avars>>

\* the function body returns with the answer of a good upstream, and the
\* value is stored
MissEnd(s) ==
  /\ run[s].pc = "computing"
  /\ LET a == Order[run[s].i + 1]
         k == CacheKey(a, run[s].q)
     IN \E c \in Outcomes(a, run[s].q) :
          /\ ~c.fault
          /\ cache' = Stored(k, c.value, <<a, run[s].q>>)
          /\ Rendered(s, a, c.value, <<a, run[s].q>>, c.requests)
  /\ UNCHANGED <<clock, faults, runs, avars>>

\* the call waited for a call of another session that was computing the
\* same key, and takes the entry that is live by now
MissJoin(s) ==
  /\ run[s].pc = "computing"
  /\ LET a == Order[run[s].i + 1]
         k == CacheKey(a, run[s].q)
     IN /\ Live(k)
        /\ Rendered(s, a, cache[k].value, cache[k].by, <<>>)
  /\ UNCHANGED <<clock, cache, faults, runs, avars>>

NextSessions ==
  \/ \E s \in Sessions : Submit(s)
  \/ \E s \in Sessions : CacheHit(s)
  \/ \E s \in Sessions : MissBegin(s)
  \/ \E s \in Sessions : MissEnd(s)
  \/ \E s \in Sessions : MissJoin(s)
  \/ Tick

SpecSessions == Init /\ [][NextSessions]_<<vars, avars>>

-----------------------------------------------------------------------------
(* Properties of the adapter functions (SpecAdapters)                      *)

\* The reply came over the wire and its body is JSON
Parsed(reply) == reply.exc = "" /\ reply.body.j # "notjson"

\* The list the adapter reads from a parsed reply (field absent: empty)
ListRead(reply, field) == PyGet(reply.body, field, JList(<<>>))

AllDicts(items) == \A i \in 1..Len(items) : items[i].j = "dict"

\* The request ended in a transport error, a non-2xx status, or a body that
\* is not JSON or not of the top-level type the adapter reads
BadExchange(reply, top) ==
  \/ reply.exc # ""
  \/ reply.status # 200
  \/ reply.body.j # top

BadOutcome ==
  CASE adapter \in {"rxnav", "openfda", "dailymed", "chembl"} -> BadExchange(replies[1], "dict")
    [] adapter = "drugcentral" ->
         \/ BadExchange(replies[1], "list")
         \/ Len(replies) = 2 /\ BadExchange(replies[2], "dict")
    [] adapter = "wikipedia" ->
         \/ IsExc(replies[1])
         \/ PyTruthy(replies[1]) /\ IsExc(replies[2][PyFirst(replies[1]).s])
    [] OTHER -> FALSE

\* C4 (as claimed): whenever the upstream request of an adapter ends in a
\* transport error, a timeout, a non-2xx status or a response of unexpected
\* shape, the adapter returns its Failure value, never a Success or an
\* empty-result value.
C4_BadOutcomeGivesFailure ==
  (phase = "returned" /\ BadOutcome) => IsFailure(adapter, out)

NoRecords(a, reply) ==
  /\ Parsed(reply) /\ reply.status = 200 /\ reply.body.j = "dict"
  /\ CASE a = "chembl" -> reply.body = JDict([molecules |-> JList(<<>>)])
       [] a = "dailymed" -> reply.body = JDict([data |-> JList(<<>>)])
       [] a = "rxnav" ->
            reply.body \in { JDict([drugGroup |-> JDict([name |-> JNull])]),
                             JDict([drugGroup |-> JDict([conceptGroup |-> JList(<<>>)])]) }

\* C6 (as claimed): for RxNav, DailyMed and ChEMBL a valid response with no
\* matching records gives an empty list or a "no records" sentinel that
\* does not carry the error marker the same adapter uses for a Failure.
C6_NoRecordsCarriesNoErrorMarker ==
  (phase = "returned" /\ adapter \in {"rxnav", "dailymed", "chembl"}
     /\ NoRecords(adapter, replies[1]))
  => /\ ~IsFailure(adapter, out)
     /\ ~CarriesErrorMarker(adapter, out)

\* The first k entries of a list of dicts, each mapped by F
FirstMapped(F(_), l, k) == [i \in 1..Min(k, Len(l.items)) |-> F(l.items[i])]

\* A reply whose list under field is a list, its first k entries dicts
ReadableList(reply, field, k) ==
  /\ Parsed(reply) /\ reply.body.j = "dict"
  /\ ListRead(reply, field).j = "list"
  /\ AllDicts(SubSeq(ListRead(reply, field).items, 1,
                      Min(k, Len(ListRead(reply, field).items))))

IsSuccess(a, v) == v.j = "dict" /\ ~HasErrorKey(v)

\* The pharmacology part of C7: a Success holds the first 3 target names and
\* the first 2 indications of the detail response, in response order
DrugcentralTruncation ==
  (adapter = "drugcentral" /\ IsSuccess(adapter, out)) =>
     /\ out.f["targets"].items =
          FirstMapped(TargetName, ListRead(replies[2], "targets"), 3)
     /\ out.f["indications"].items =
          FirstMapped(IndicationOf, ListRead(replies[2], "indications"), 2)

\* C7 (as claimed): for a response with n molecules ChEMBL returns min(n, 3)
\* entries, the first min(n, 3) molecules in order; DailyMed the first 2
\* entries at most; DrugCentral the first 3 target names and the first 2
\* indications at most.
C7_TruncationAsClaimed ==
  phase = "returned" =>
    /\ (adapter = "chembl" /\ ReadableList(replies[1], "molecules", 3)) =>
         out.items = FirstMapped(ChemblEntry, ListRead(replies[1], "molecules"), 3)
    /\ (adapter = "dailymed" /\ ReadableList(replies[1], "data", 2)) =>
         /\ Len(out.items) <= 2
         /\ ListRead(replies[1], "data").items # <<>> =>
              out.items = FirstMapped(DailymedEntry, ListRead(replies[1], "data"), 2)
    /\ DrugcentralTruncation

\* C7 (amended): the same for a response with at least one entry; with no
\* entry ChEMBL and DailyMed return a list of one item, their "no records"
\* sentinel.
C7_Truncation ==
  phase = "returned" =>
    /\ (adapter = "chembl" /\ ReadableList(replies[1], "molecules", 3)) =>
         IF ListRead(replies[1], "molecules").items # <<>>
           THEN out.items = FirstMapped(ChemblEntry, ListRead(replies[1], "molecules"), 3)
           ELSE out = JList(<<JDict([error |-> JStr("No ChEMBL records found")])>>)
    /\ (adapter = "dailymed" /\ ReadableList(replies[1], "data", 2)) =>
         IF ListRead(replies[1], "data").items # <<>>
           THEN out.items = FirstMapped(DailymedEntry, ListRead(replies[1], "data"), 2)
           ELSE out = JList(<<JStr("No DailyMed entries found")>>)
    /\ DrugcentralTruncation

\* Five molecules came back and three entries were returned
C7_Witness ==
  /\ phase = "returned" /\ adapter = "chembl"
  /\ ReadableList(replies[1], "molecules", 3)
  /\ Len(ListRead(replies[1], "molecules").items) = 5
  /\ Len(out.items) = 3
  /\ out.items[3].f["chembl_id"] = JStr("CHEMBL3")

\* A label field is absent, or a list (empty or not)
LabelFieldOk(record, field) ==
  field \in DOMAIN record.f => record.f[field].j = "list"

\* What C9 says a label field comes out as: its first text, or the sentinel
FirstTextOr(record, field) ==
  IF field \in DOMAIN record.f /\ record.f[field].items # <<>>
    THEN record.f[field].items[1]
    ELSE JStr("Not available")

\* C9 (as claimed): for every response with at least one result record,
\* its three label fields absent, empty or non-empty lists, OpenFDA returns
\* a Success with uses, warnings and side_effects, each the first text of
\* the field or "Not available".
C9_ResultRecordGivesSuccess ==
  (/\ phase = "returned" /\ adapter = "openfda"
   /\ Parsed(replies[1]) /\ replies[1].body.j = "dict"
   /\ ListRead(replies[1], "results").j = "list"
   /\ ListRead(replies[1], "results").items # <<>>
   /\ ListRead(replies[1], "results").items[1].j = "dict"
   /\ \A field \in LabelFields :
        LabelFieldOk(ListRead(replies[1], "results").items[1], field))
  => LET record == ListRead(replies[1], "results").items[1] IN
     out = JDict([uses |-> FirstTextOr(record, "indications_and_usage"),
                  warnings |-> FirstTextOr(record, "warnings"),
                  side_effects |-> FirstTextOr(record, "adverse_reactions")])

\* C10 (as claimed): in DrugCentral, DailyMed and ChEMBL a key missing from
\* a record of an otherwise successful response never makes the call a
\* Failure: whatever fields the records lack, the adapter returns a Success.
C10_MissingKeyNeverFails ==
  phase = "returned" =>
    /\ (adapter = "chembl" /\ ReadableList(replies[1], "molecules", MaxMols + 1)) =>
         ~IsFailure(adapter, out)
    /\ (adapter = "dailymed" /\ ReadableList(replies[1], "data", MaxSpls + 1)) =>
         ~IsFailure(adapter, out)
    /\ (/\ adapter = "drugcentral"
        /\ Parsed(replies[1]) /\ replies[1].body.j = "list"
        /\ replies[1].body.items # <<>> /\ AllDicts(replies[1].body.items)
        /\ Len(replies) = 2 =>
             /\ ReadableList(replies[2], "targets", MaxTargets + 1)
             /\ ReadableList(replies[2], "indications", MaxIndications + 1))
       => IsSuccess(adapter, out)

-----------------------------------------------------------------------------
(* Properties of the script runs (Spec, SpecSessions)                      *)

\* C1 (as claimed): whatever the upstream outcomes, a run with a non-empty
\* query attempts all six adapters and ends with one result per adapter;
\* nothing stops the run before the last adapter.
C1_RunCoversAllSix ==
  \A s \in Sessions :
    /\ run[s].pc # "aborted"
    /\ (run[s].pc = "finished" /\ run[s].q # "") => run[s].got = Order

\* The key of the call that session s makes next
NextKey(s) == CacheKey(Order[run[s].i + 1], run[s].q)

\* Session s makes a call in this step
Calls(s) == run[s].pc = "running" /\ run'[s] # run[s]

\* C2: a call made while the entry of its key is younger than TTL returns
\* the stored value and issues no upstream request; a call made with no
\* entry, or an entry older than TTL, issues a fresh request, stores what
\* it computed with the current time and returns it.
C2_CacheContract ==
  [][\A s \in Sessions : Calls(s) =>
       LET k == NextKey(s) IN
       /\ (k \in DOMAIN cache /\ clock - cache[k].at < TTL) =>
            /\ run'[s].last.value = cache[k].value
            /\ run'[s].last.requests = <<>>
            /\ cache' = cache
       /\ (k \notin DOMAIN cache \/ clock - cache[k].at > TTL) =>
            /\ run'[s].last.requests # <<>>
            /\ run'[s].last.value \in { c.value : c \in Outcomes(k[1], k[2]) }
            /\ cache'[k].value = run'[s].last.value
            /\ cache'[k].at = clock
     ]_<<vars, avars>>

\* A call returned an entry stored earlier, and an entry was stored when
\* the first one of its key had run out
C2_Witness ==
  /\ run["A"].i >= 1
  /\ run["A"].last.requests = <<>>
  /\ run["A"].last.by \in DOMAIN cache
  /\ cache[run["A"].last.by].at < clock
  /\ \E k \in DOMAIN cache : cache[k].at >= TTL

\* C3: a Failure is cached like a Success: while its entry is younger than
\* TTL every call of its key returns that Failure with no upstream request
\* and nothing replaces the entry; a call that computes a Failure stores it.
C3_FailureIsCached ==
  [][/\ \A k \in DOMAIN cache :
          (IsError(k[1], cache[k].value) /\ clock - cache[k].at < TTL) =>
             /\ k \in DOMAIN cache' /\ cache'[k] = cache[k]
             /\ \A s \in Sessions : (Calls(s) /\ NextKey(s) = k) =>
                  /\ run'[s].last.value = cache[k].value
                  /\ run'[s].last.requests = <<>>
     /\ \A s \in Sessions :
          (Calls(s) /\ IsError(Order[run'[s].i], run'[s].last.value)) =>
             /\ NextKey(s) \in DOMAIN cache'
             /\ cache'[NextKey(s)].value = run'[s].last.value
     ]_<<vars, avars>>

\* A call returned a cached Failure, later than it was stored
C3_Witness ==
  /\ run["A"].i >= 1
  /\ run["A"].last.requests = <<>>
  /\ IsFailure(Order[run["A"].i], run["A"].last.value)
  /\ run["A"].last.by \in DOMAIN cache
  /\ cache[run["A"].last.by].at < clock

\* Session s gets the value of a call in this step
Returns(s) == run'[s].i = run[s].i + 1

====
